---- MODULE Spec2Model ----
(***************************************************************************)
(* Model of the licitacao repository.                                      *)
(*                                                                         *)
(*   src/extract.py  query_all_contracts / _fetch_page  (the Fetcher)      *)
(*                   process_data                       (the Normalizer)   *)
(*   src/app.py      login_page, main_interface, parse_keywords, to_excel  *)
(*                                                                         *)
(* The two scripts never run together (they share only the snapshot file), *)
(* so each has a specification of its own over the same variables:         *)
(*   SpecFetch    the pagination loop against an arbitrary server          *)
(*   SpecNorm     process_data applied to an arbitrary raw dataset         *)
(*   SpecApp      a browser session of app.py, one action per script rerun *)
(*   SpecKeyword  a session whose searches range over every keyword text   *)
(***************************************************************************)
EXTENDS Integers, Sequences, FiniteSets, TLC

VARIABLES
    \* ---- extract.py, query_all_contracts ----
    params,          \* the caller's parameter bag
    page,            \* local `page`
    all_data,        \* local `all_data`: the page frames accumulated so far
    total_pages,     \* local `total_pages`
    pbar,            \* local `pbar`: the tqdm bar, or PyNone
    fpc,             \* "loop" while in the while-loop, "returned" after return
    fetched,         \* the return value of query_all_contracts
    requests,        \* history: the query_params of every GET issued
    responses,       \* history: what the server answered to each GET
    \* ---- extract.py, process_data ----
    raw_df,          \* the argument of process_data
    npc,             \* "call" before process_data ran, then "returned"/"raised"
    clean_df,        \* the frame process_data returns
    \* ---- app.py ----
    session_state,   \* st.session_state: a function from keys to values
    contracts_clean, \* the content of contracts_clean.pkl
    cache_loaded,    \* whether load_data ran (st.cache_data holds its result)
    df_full,         \* what load_data returned
    form,            \* the login form as last submitted, and the inline error
    view             \* what the last script run rendered below the search bar

fetchVars == <<params, page, all_data, total_pages, pbar, fpc, fetched, requests, responses>>
normVars == <<raw_df, npc, clean_df>>
appVars == <<session_state, contracts_clean, cache_loaded, df_full, form, view>>
vars == <<fetchVars, normVars, appVars>>

(***************************************************************************)
(* Cells.  A missing value (None, NaN, JSON null) is NA; a present value v *)
(* is Val(v).                                                              *)
(***************************************************************************)
NA == [na |-> TRUE]
Val(v) == [na |-> FALSE, v |-> v]

\* Python's None where a whole object is absent.
PyNone == [none |-> TRUE]

RECURSIVE Flatten(_)
\* pd.concat(frames, ignore_index=True) of frames kept as row sequences.
Flatten(frames) ==
    IF frames = <<>> THEN <<>> ELSE Head(frames) \o Flatten(Tail(frames))

(***************************************************************************)
(*                      extract.py : the Fetcher                           *)
(***************************************************************************)
PAGE_SIZE == 50

\* Bounds of the server the loop is run against.
MaxPages == 3
MaxRemaining == 1
MaxTotal == 1

\* Parameter bags a caller passes; the last one carries a "pagina" of its own.
ParamBags ==
    { [dataFinal |-> "20400618"],
      [dataFinal |-> "20400618", uf |-> "SC"],
      [dataFinal |-> "20400618", pagina |-> MaxPages + 4] }

\* The `data` arrays a page may carry (rows are opaque here).
PageData == { <<>>, <<"item">> }

\* What one GET can lead to.
\*   network_error : requests.get raises (timeout, DNS, connection)
\*   http_error    : raise_for_status raises on a 4xx/5xx status
\*   no_data       : a JSON body without the "data" key
\*   no_counts     : "data" present, "paginasRestantes"/"totalPaginas" absent
\*   ok            : the documented shape
ServerResponses ==
    { [kind |-> k] : k \in {"network_error", "http_error", "no_data", "no_counts"} }
    \cup
    { [kind |-> "ok", data |-> d, paginasRestantes |-> r, totalPaginas |-> t] :
        d \in PageData,
        r \in 0..MaxRemaining,
        t \in {NA} \cup { Val(n) : n \in 0..MaxTotal } }

\* _fetch_page: the triple on the documented shape, a bare None otherwise
\* (both except clauses and the else branch return None).
fetch_page(resp) ==
    IF resp.kind = "ok"
    THEN [none |-> FALSE, df |-> resp.data,
          paginasRestantes |-> resp.paginasRestantes,
          totalPaginas |-> resp.totalPaginas]
    ELSE PyNone

\* query_params = params.copy() with pagina and tamanhoPagina set.
QueryParams(p, pg) ==
    [k \in (DOMAIN p) \cup {"pagina", "tamanhoPagina"} |->
        IF k = "pagina" THEN pg
        ELSE IF k = "tamanhoPagina" THEN PAGE_SIZE
        ELSE p[k]]

\* bool(pbar) raises TypeError when the bar was built with total=None.
PbarBoolRaises(bar) == bar # PyNone /\ bar.total = NA
\* bool(pbar) otherwise: None is falsy, a bar is truthy iff total > 0.
PbarTruthy(bar) == bar # PyNone /\ bar.total # NA /\ bar.total.v > 0

\* A faulty NoMorePages: leaves the loop one page early.
NoMorePages_OffByOne(paginasRestantes) == paginasRestantes <= 1

\* The test that leaves the loop (line 46).
NoMorePages(paginasRestantes) == paginasRestantes = 0

\* page += 1 (line 49).
NextPage(pg) == pg + 1

\* A faulty AbortResult: hands back the pages accumulated so far.
AbortResult_Partial(acc) == [none |-> FALSE, rows |-> Flatten(acc)]

\* What the except clause of the loop returns (line 53).
AbortResult(acc) == PyNone

InitFetch ==
    /\ params \in ParamBags
    /\ page = 1
    /\ all_data = <<>>
    /\ total_pages = PyNone
    /\ pbar = PyNone
    /\ fpc = "loop"
    /\ fetched = PyNone
    /\ requests = <<>>
    /\ responses = <<>>

\* One iteration of `while True`: build query_params, GET, and everything the
\* body does with the answer, up to and including a return.
LoopIteration ==
    /\ fpc = "loop"
    /\ page <= MaxPages
    /\ \E resp \in ServerResponses :
        LET got == fetch_page(resp)
            \* first successful page: total_pages = totalPaginas, pbar = tqdm(...)
            tp == IF total_pages = PyNone /\ got # PyNone
                  THEN got.totalPaginas ELSE total_pages
            bar0 == IF total_pages = PyNone /\ got # PyNone
                    THEN [total |-> got.totalPaginas, n |-> 0] ELSE pbar
            bar1 == IF PbarTruthy(bar0) THEN [bar0 EXCEPT !.n = @ + 1] ELSE bar0
            \* unpacking None raises TypeError; bool(pbar) may raise TypeError
            raised == got = PyNone \/ PbarBoolRaises(bar0)
        IN
        /\ requests' = Append(requests, QueryParams(params, page))
        /\ responses' = Append(responses, resp)
        /\ IF raised
           THEN /\ fpc' = "returned"
                /\ fetched' = AbortResult(all_data)
                /\ total_pages' = IF got = PyNone THEN total_pages ELSE tp
                /\ pbar' = IF got = PyNone THEN pbar ELSE bar0
                /\ UNCHANGED <<page, all_data>>
           ELSE /\ total_pages' = tp
                /\ pbar' = bar1
                /\ all_data' = Append(all_data, got.df)
                /\ IF NoMorePages(got.paginasRestantes)
                   THEN /\ fpc' = "returned"
                        /\ fetched' = [none |-> FALSE,
                                       rows |-> Flatten(Append(all_data, got.df))]
                        /\ page' = page
                   ELSE /\ page' = NextPage(page)
                        /\ UNCHANGED <<fpc, fetched>>
    /\ UNCHANGED <<params, normVars, appVars>>

IdleFetch ==
    /\ params = [dataFinal |-> "20400618"]
    /\ page = 1
    /\ all_data = <<>>
    /\ total_pages = PyNone
    /\ pbar = PyNone
    /\ fpc = "idle"
    /\ fetched = PyNone
    /\ requests = <<>>
    /\ responses = <<>>

(***************************************************************************)
(*                    extract.py : the Normalizer                          *)
(*                                                                         *)
(* A DataFrame is [columns |-> set of names, rows |-> sequence of rows],   *)
(* a row is [label |-> its index label, cells |-> [column -> cell]].       *)
(* The raw frame comes from pd.concat(..., ignore_index=True) or from the  *)
(* pickle of it, so its labels are 0..n-1.  The six to_datetime lines      *)
(* (124-129) rewrite date columns no other line reads; those columns are   *)
(* not carried.  pd.json_normalize and pd.concat are modelled as pandas    *)
(* 1.x/2.x compute them (the versions that still have DataFrame.applymap,  *)
(* which app.py calls): json_normalize returns a frame with a fresh        *)
(* RangeIndex, and concat(axis=1) outer-joins on the index labels without  *)
(* sorting.                                                                *)
(***************************************************************************)
MaxRows == 3

PoderIds == {"E", "M", "N", "X"}

\* The record with index label i; every nested object carries the record's
\* own identity (cnpj, codigoUnidade), so a cell can be traced to its record.
RawCells(i, h, e, o, p) ==
    [ numeroControlePNCP |-> Val(ToString(i)),
      valorTotalHomologado |-> h,
      valorTotalEstimado |-> e,
      objetoCompra |-> Val(o),
      orgaoEntidade |-> Val([cnpj |-> ToString(i), poderId |-> p]),
      unidadeOrgao |-> Val([codigoUnidade |-> ToString(i)]) ]

RawColumns ==
    {"numeroControlePNCP", "valorTotalHomologado", "valorTotalEstimado",
     "objetoCompra", "orgaoEntidade", "unidadeOrgao"}

\* The awarded value is usually absent at proposal stage.
Homologados == {NA, Val("100.0")}
Estimados == {Val("100.0"), Val("250.5")}
Objetos == {"obra", "medicamento"}

\* What distinguishes one raw record from another, apart from its identity.
RowChoices ==
    [h : Homologados, e : Estimados, o : Objetos, p : PoderIds]

\* The raw frame of n rows whose k-th record is described by c[k].
RawFrame(n, c) ==
    [columns |-> RawColumns,
     rows |-> [k \in 1..n |->
        [label |-> k - 1,
         cells |-> RawCells(k - 1, c[k].h, c[k].e, c[k].o, c[k].p)]]]

\* pd.DataFrame(): what query_all_contracts returns when every page was empty.
EmptyFrame == [columns |-> {}, rows |-> <<>>]

Labels(f) == { f.rows[k].label : k \in DOMAIN f.rows }
RowAt(f, l) == CHOOSE r \in { f.rows[k] : k \in DOMAIN f.rows } : r.label = l

\* The positions duplicated(subset, keep='first') leaves unmarked.
KeptPositions(f, subset) ==
    LET key(k) == [c \in subset |-> f.rows[k].cells[c]]
        first(k) == \A j \in 1..(k-1) : key(j) # key(k)
    IN SelectSeq([k \in 1..Len(f.rows) |-> k], first)

\* df.drop_duplicates(subset=..., inplace=True): first occurrences, labels kept.
drop_duplicates(f, subset) ==
    LET kept == KeptPositions(f, subset)
    IN [columns |-> f.columns,
        rows |-> [k \in 1..Len(kept) |-> f.rows[kept[k]]]]

\* df[name] = df[from]
CopyColumn(f, name, from) ==
    [columns |-> f.columns \cup {name},
     rows |-> [k \in DOMAIN f.rows |->
        [label |-> f.rows[k].label,
         cells |-> [c \in f.columns \cup {name} |->
            IF c = name THEN f.rows[k].cells[from] ELSE f.rows[k].cells[c]]]]]

\* df.drop(name, axis=1)
DropColumn(f, name) ==
    [columns |-> f.columns \ {name},
     rows |-> [k \in DOMAIN f.rows |->
        [label |-> f.rows[k].label,
         cells |-> [c \in f.columns \ {name} |-> f.rows[k].cells[c]]]]]

\* The index labels json_normalize gives its result: a fresh 0..n-1.
NormalizedLabel(f, k) == k - 1

\* pd.json_normalize(df[col]): one row per element, in order; a dict unpacks
\* to its keys, anything else (a NaN) to no key at all.
json_normalize(f, col) ==
    LET dict(k) == f.rows[k].cells[col]
        keys == UNION { DOMAIN dict(k).v : k \in { j \in DOMAIN f.rows : ~dict(j).na } }
    IN [columns |-> keys,
        rows |-> [k \in DOMAIN f.rows |->
            [label |-> NormalizedLabel(f, k),
             cells |-> [c \in keys |->
                IF ~dict(k).na /\ c \in DOMAIN dict(k).v
                THEN Val(dict(k).v[c]) ELSE NA]]]]

\* pd.concat([L, R], axis=1): the union of the labels (L's first, then R's
\* new ones), each side's cells where it has the label, NaN where not.
ConcatAxis1(L, R) ==
    LET new(r) == r.label \notin Labels(L)
        extra == SelectSeq(R.rows, new)
        index == [k \in 1..(Len(L.rows) + Len(extra)) |->
                    IF k <= Len(L.rows) THEN L.rows[k].label
                    ELSE extra[k - Len(L.rows)].label]
        cols == L.columns \cup R.columns
        cell(l, c) ==
            IF c \in R.columns
            THEN (IF l \in Labels(R) THEN RowAt(R, l).cells[c] ELSE NA)
            ELSE (IF l \in Labels(L) THEN RowAt(L, l).cells[c] ELSE NA)
    IN [columns |-> cols,
        rows |-> [k \in DOMAIN index |->
            [label |-> index[k], cells |-> [c \in cols |-> cell(index[k], c)]]]]

\* poder_map, applied by Series.map: an unmapped or missing code gives NaN.
poder_map(code) ==
    IF code = Val("E") THEN Val("Estadual")
    ELSE IF code = Val("M") THEN Val("Municipal")
    ELSE IF code = Val("N") THEN Val("Nacional")
    ELSE NA

\* df['poder'] = df['poderId'].map(poder_map)
MapPoder(f) ==
    [columns |-> f.columns \cup {"poder"},
     rows |-> [k \in DOMAIN f.rows |->
        [label |-> f.rows[k].label,
         cells |-> [c \in f.columns \cup {"poder"} |->
            IF c = "poder" THEN poder_map(f.rows[k].cells["poderId"])
            ELSE f.rows[k].cells[c]]]]]

\* The columns the deduplication compares (line 121).
DedupSubset == {"valorTotalHomologado", "objetoCompra"}

\* process_data.  A missing column raises KeyError: the subset of
\* drop_duplicates on a column-less frame, 'poderId' when json_normalize
\* found no dict to take it from.
process_data(df) ==
    IF ~(RawColumns \subseteq df.columns)
    THEN [raised |-> TRUE]
    ELSE
    LET d1 == drop_duplicates(df, DedupSubset)
        d2 == CopyColumn(d1, "valor", "valorTotalEstimado")
        orgao_entidade_df == json_normalize(d2, "orgaoEntidade")
        d3 == ConcatAxis1(DropColumn(d2, "orgaoEntidade"), orgao_entidade_df)
    IN IF "poderId" \notin d3.columns
       THEN [raised |-> TRUE]
       ELSE
       LET d4 == MapPoder(d3)
           unidade_orgao_df == json_normalize(d4, "unidadeOrgao")
       IN [raised |-> FALSE,
           df |-> ConcatAxis1(DropColumn(d4, "unidadeOrgao"), unidade_orgao_df)]

InitNorm ==
    /\ \/ raw_df = EmptyFrame
       \/ \E n \in 0..MaxRows : \E c \in [1..n -> RowChoices] : raw_df = RawFrame(n, c)
    /\ npc = "call"
    /\ clean_df = EmptyFrame

\* contracts_data = process_data(contracts_data)
ProcessData ==
    /\ npc = "call"
    /\ LET out == process_data(raw_df)
       IN IF out.raised
          THEN npc' = "raised" /\ clean_df' = clean_df
          ELSE npc' = "returned" /\ clean_df' = out.df
    /\ UNCHANGED <<raw_df, fetchVars, appVars>>

IdleNorm ==
    /\ raw_df = EmptyFrame
    /\ npc = "idle"
    /\ clean_df = EmptyFrame

(***************************************************************************)
(*                         app.py : text helpers                           *)
(*                                                                         *)
(* A text (a keyword input, an objetoCompra) is a sequence of characters,  *)
(* each a one-character string; "VT" stands for the control character      *)
(* 0x0B.                                                                   *)
(***************************************************************************)
\* What str.strip() removes at both ends.
Whitespace == {" ", "VT"}

RECURSIVE split(_, _)
\* text.split(sep): the pieces between the separators, empty ones included.
split(text, sep) ==
    IF \A k \in DOMAIN text : text[k] # sep
    THEN <<text>>
    ELSE LET at == CHOOSE k \in DOMAIN text :
                      text[k] = sep /\ \A j \in 1..(k-1) : text[j] # sep
         IN <<SubSeq(text, 1, at - 1)>> \o split(SubSeq(text, at + 1, Len(text)), sep)

RECURSIVE lstrip(_)
lstrip(text) ==
    IF text # <<>> /\ Head(text) \in Whitespace THEN lstrip(Tail(text)) ELSE text

RECURSIVE rstrip(_)
rstrip(text) ==
    IF text # <<>> /\ text[Len(text)] \in Whitespace
    THEN rstrip(SubSeq(text, 1, Len(text) - 1)) ELSE text

\* token.strip()
strip(text) == rstrip(lstrip(text))

\* parse_keywords (lines 79-86).
parse_keywords(text) ==
    IF text = <<>> THEN <<>>
    ELSE LET pieces == split(text, ";")
             nonempty(piece) == strip(piece) # <<>>
             kept == SelectSeq(pieces, nonempty)
         IN [k \in DOMAIN kept |-> strip(kept[k])]

\* The characters re.escape puts a backslash before (of those texts hold).
RegexSpecial == {".", " ", "|", "\\", "VT", "*", "+", "?", "(", ")", "[", "]", "^", "$"}

\* A faulty re_escape: the term goes into the pattern as it is.
re_escape_Raw(term) == term

RECURSIVE re_escape(_)
\* re.escape(term)
re_escape(term) ==
    IF term = <<>> THEN <<>>
    ELSE (IF Head(term) \in RegexSpecial THEN <<"\\", Head(term)>> ELSE <<Head(term)>>)
         \o re_escape(Tail(term))

RECURSIVE JoinBar(_)
\* "|".join(parts)
JoinBar(parts) ==
    IF parts = <<>> THEN <<>>
    ELSE IF Len(parts) = 1 THEN parts[1]
    ELSE parts[1] \o <<"|">> \o JoinBar(Tail(parts))

\* pattern = "|".join(re.escape(term) for term in keywords)  (line 178)
BuildPattern(keywords) ==
    JoinBar([k \in DOMAIN keywords |-> re_escape(keywords[k])])

RECURSIVE RegexTokens(_)
\* The regular expression as the re module reads it: a backslash makes the
\* next character a literal, an unescaped "." is any character, an unescaped
\* "|" separates alternatives, every other character is a literal.
RegexTokens(pattern) ==
    IF pattern = <<>> THEN <<>>
    ELSE IF Head(pattern) = "\\" /\ Len(pattern) >= 2
         THEN <<[kind |-> "lit", c |-> pattern[2]]>> \o RegexTokens(Tail(Tail(pattern)))
    ELSE IF Head(pattern) = "."
         THEN <<[kind |-> "any", c |-> "."]>> \o RegexTokens(Tail(pattern))
    ELSE IF Head(pattern) = "|"
         THEN <<[kind |-> "bar", c |-> "|"]>> \o RegexTokens(Tail(pattern))
    ELSE <<[kind |-> "lit", c |-> Head(pattern)]>> \o RegexTokens(Tail(pattern))

RECURSIVE Alternatives(_)
\* The token sequences between the unescaped bars.
Alternatives(tokens) ==
    IF \A k \in DOMAIN tokens : tokens[k].kind # "bar"
    THEN <<tokens>>
    ELSE LET at == CHOOSE k \in DOMAIN tokens :
                      tokens[k].kind = "bar" /\ \A j \in 1..(k-1) : tokens[j].kind # "bar"
         IN <<SubSeq(tokens, 1, at - 1)>>
            \o Alternatives(SubSeq(tokens, at + 1, Len(tokens)))

\* Case folding under re.IGNORECASE, on the letters texts hold.
Lower(c) == IF c = "A" THEN "a" ELSE IF c = "B" THEN "b" ELSE c

\* One pattern token against one character (case=False).
TokenMatches(token, c) ==
    \/ token.kind = "any"
    \/ token.kind = "lit" /\ Lower(token.c) = Lower(c)

\* re.search(pattern, text, re.IGNORECASE) is not None
regex_search(pattern, text) ==
    LET alts == Alternatives(RegexTokens(pattern))
    IN \E a \in DOMAIN alts :
         \E start \in 0..(Len(text) - Len(alts[a])) :
            \A k \in DOMAIN alts[a] : TokenMatches(alts[a][k], text[start + k])

\* Series.str.contains(pattern, case=False, na=False, regex=True) on one cell.
str_contains(cell, pattern) ==
    IF cell.na THEN FALSE ELSE regex_search(pattern, cell.v)

(***************************************************************************)
(*                      app.py : the clean snapshot                        *)
(*                                                                         *)
(* A loaded DataFrame is [columns |-> sequence of names, rows |-> sequence *)
(* of [column -> cell]]; a filtered frame is the sequence of the positions *)
(* of its rows in df_full (boolean-mask indexing keeps the order).         *)
(***************************************************************************)
MaxValor == 2
MaxKeywordLen == 3
MaxDescLen == 2

SnapshotColumns ==
    <<"modalidadeNome", "objetoCompra", "situacaoCompraNome", "valor",
      "municipioNome", "ufSigla">>

\* The descriptions of the session snapshot, dealt to the rows in turn.
SessionDescriptions ==
    << Val(<<"a">>), NA, Val(<<"A", "VT">>), Val(<<".">>), Val(<<>>) >>

\* What distinguishes the rows of the session snapshot.
SessionShapes ==
    [situacaoCompraNome : {NA, Val("Divulgada"), Val("Revogada")},
     ufSigla : {NA, Val("SC")},
     municipioNome : {NA, Val("Lages")},
     modalidadeNome : {NA, Val("Pregao")},
     valor : {NA} \cup { Val(n) : n \in 1..MaxValor }]

RECURSIVE SetToSeq(_)
SetToSeq(S) ==
    IF S = {} THEN <<>>
    ELSE LET x == CHOOSE y \in S : TRUE IN <<x>> \o SetToSeq(S \ {x})

\* A snapshot holding one row of every shape.
SessionSnapshot ==
    LET shapes == SetToSeq(SessionShapes)
    IN [columns |-> SnapshotColumns,
        rows |-> [k \in DOMAIN shapes |->
            [c \in {"modalidadeNome", "objetoCompra", "situacaoCompraNome", "valor",
                    "municipioNome", "ufSigla"} |->
                IF c = "objetoCompra"
                THEN SessionDescriptions[(k % Len(SessionDescriptions)) + 1]
                ELSE shapes[k][c]]]]

\* Every text of at most n characters of the alphabet.
Texts(alphabet, n) == UNION { [1..m -> alphabet] : m \in 0..n }

KeywordAlphabet == {"a", ".", ";", " "}
DescriptionAlphabet == {"a", "A", ".", "b"}

\* A snapshot holding one row of every description, other columns alike.
KeywordSnapshot ==
    LET descs == SetToSeq({NA} \cup { Val(t) : t \in Texts(DescriptionAlphabet, MaxDescLen) })
    IN [columns |-> SnapshotColumns,
        rows |-> [k \in DOMAIN descs |->
            [c \in {"modalidadeNome", "objetoCompra", "situacaoCompraNome", "valor",
                    "municipioNome", "ufSigla"} |->
                IF c = "objetoCompra" THEN descs[k]
                ELSE IF c = "valor" THEN Val(1)
                ELSE IF c = "situacaoCompraNome" THEN Val("Divulgada")
                ELSE IF c = "ufSigla" THEN Val("SC")
                ELSE IF c = "municipioNome" THEN Val("Lages")
                ELSE Val("Pregao")]]]

\* Keyword texts in capitals, typed besides the texts of the alphabet: the
\* shorter texts with every letter capital, and some of mixed case.
CapitalKeywords ==
    { [k \in DOMAIN t |-> IF t[k] = "a" THEN "A" ELSE t[k]] :
        t \in Texts(KeywordAlphabet, MaxKeywordLen - 1) }
    \cup { <<"A", ";", ".">>, <<"A", "a">>, <<"a", "A">>, <<"a", ";", "A">>,
           <<" ", "A", " ">>, <<"A", ".", "a">>, <<".", ";", "A">> }

\* The keyword texts typed in a full session / in a keyword session.
SessionKeywords == { <<>>, <<"a", ";">>, <<"b">> }
KeywordTexts == Texts(KeywordAlphabet, MaxKeywordLen) \cup CapitalKeywords

(***************************************************************************)
(*                    app.py : session state and login                     *)
(***************************************************************************)
\* The default of selected_columns (lines 25-34).
DefaultSelectedColumns ==
    <<"numeroControlePNCP", "dataAberturaProposta", "dataEncerramentoProposta",
      "objetoCompra", "valor", "situacaoCompraNome",
      "tipoIntrumentoConvocatorioNome", "poder">>

\* State initialization (lines 18-34).
InitialSessionState ==
    [logged_in |-> FALSE, show_filters |-> FALSE, show_columns |-> FALSE,
     selected_columns |-> DefaultSelectedColumns]

\* st.session_state.get(key, default)
Get(st, key, default) == IF key \in DOMAIN st THEN st[key] ELSE default
\* st.session_state[key] = value
Set(st, key, value) ==
    [k \in (DOMAIN st) \cup {key} |-> IF k = key THEN value ELSE st[k]]

Usernames == {"Renato", "renato"}
Passwords == {"12345678", "1234"}

\* A faulty CredentialsOk: the password is not compared.
CredentialsOk_UserOnly(username, password) == username = "Renato"

\* The test of line 47.
CredentialsOk(username, password) == username = "Renato" /\ password = "12345678"

\* load_data under st.cache_data: the pickle is read once.
load_data == IF cache_loaded THEN df_full ELSE contracts_clean

(***************************************************************************)
(*                     app.py : one run of main_interface                  *)
(***************************************************************************)
SeqRange(s) == { s[k] : k \in DOMAIN s }

\* sorted(df_full[col].dropna().unique()), as the set a multiselect offers.
Options(df, col) == { df.rows[k][col].v : k \in { j \in DOMAIN df.rows : ~df.rows[j][col].na } }

\* The events that start a run of main_interface.
\*   colunas / filtros : the two toggle buttons
\*   select            : the column multiselect changed to `value`
\*   filter            : the filter widget `key` changed to `value`
\*   buscar            : the search button, with `value` in the search bar
\*   other             : any other rerun (a login, a download, a typed keyword)
Event(kind, key, value) == [kind |-> kind, key |-> key, value |-> value]

\* default_cols of the column multiselect (lines 104-112).
DefaultCols(st, df) ==
    LET present(col) == col \in SeqRange(df.columns)
        kept == SelectSeq(st.selected_columns, present)
    IN IF kept = <<>> /\ df.columns # <<>>
       THEN SubSeq(df.columns, 1, IF Len(df.columns) < 5 THEN Len(df.columns) ELSE 5)
       ELSE kept

\* Columns section (lines 99-118).  The multiselect returns what the user
\* just chose, and its default otherwise (a multiselect whose default changed
\* is a new widget, and starts from that default).
ColumnsSection(st, df, ev) ==
    LET st1 == IF ev.kind = "colunas"
               THEN Set(st, "show_columns", ~st.show_columns) ELSE st
    IN IF st1.show_columns
       THEN Set(st1, "selected_columns",
                IF ev.kind = "select" THEN ev.value ELSE DefaultCols(st1, df))
       ELSE st1

FilterKeys == {"status_filter", "uf_filter", "city_filter", "type_filter"}

\* The value a filter widget returns in this run: what the user just set it
\* to, what it held in the previous run if the panel was rendered then, and
\* its initial value (nothing selected, 0) when the panel has just opened.
WidgetValue(st, ev, key, initial) ==
    IF ev.kind = "filter" /\ ev.key = key THEN ev.value
    ELSE IF ev.kind = "filtros" THEN initial
    ELSE Get(st, key, initial)

\* Filters section (lines 121-146).
FiltersSection(st, ev) ==
    LET st1 == IF ev.kind = "filtros"
               THEN Set(st, "show_filters", ~st.show_filters) ELSE st
    IN IF st1.show_filters
       THEN [k \in (DOMAIN st1) \cup FilterKeys \cup {"min_value"} |->
                IF k \in FilterKeys THEN WidgetValue(st, ev, k, {})
                ELSE IF k = "min_value" THEN WidgetValue(st, ev, k, 0)
                ELSE st1[k]]
       ELSE st1

\* A faulty isin: a missing value passes every membership test.
isin_MissingPasses(cell, values) == cell.na \/ cell.v \in values

\* Series.isin(values) on one cell.
isin(cell, values) == ~cell.na /\ cell.v \in values

\* A faulty ValorAtLeast: a strict lower bound.
ValorAtLeast_Strict(cell, threshold) == ~cell.na /\ cell.v > threshold

\* df['valor'] >= min_value on one cell (a NaN compares False).
ValorAtLeast(cell, threshold) == ~cell.na /\ cell.v >= threshold

\* if <filter>: df = df[df[col].isin(<filter>)]
ApplyIsin(df, rows, col, values) ==
    IF values = {} THEN rows
    ELSE LET keep(l) == isin(df.rows[l][col], values) IN SelectSeq(rows, keep)

\* Lines 158-171: the four categorical filters.
CategoricalFilters(df, st) ==
    LET r0 == [k \in DOMAIN df.rows |-> k]
        r1 == ApplyIsin(df, r0, "situacaoCompraNome", Get(st, "status_filter", {}))
        r2 == ApplyIsin(df, r1, "ufSigla", Get(st, "uf_filter", {}))
        r3 == ApplyIsin(df, r2, "municipioNome", Get(st, "city_filter", {}))
    IN ApplyIsin(df, r3, "modalidadeNome", Get(st, "type_filter", {}))

\* Lines 162, 172-173: the numeric filter.
NumericFilter(df, rows, st) ==
    LET min_value == Get(st, "min_value", 0)
        keep(l) == ValorAtLeast(df.rows[l]["valor"], min_value)
    IN IF min_value # 0 THEN SelectSeq(rows, keep) ELSE rows

\* Lines 175-179: the keyword filter.
KeywordFilter(df, rows, keyword) ==
    LET keywords == parse_keywords(keyword)
        pattern == BuildPattern(keywords)
        keep(l) == str_contains(df.rows[l]["objetoCompra"], pattern)
    IN IF keywords # <<>> THEN SelectSeq(rows, keep) ELSE rows

\* A faulty DisplayColumns: the chosen columns in the dataset's order.
DisplayColumns_DatasetOrder(st, df) ==
    LET wanted(col) == col \in SeqRange(Get(st, "selected_columns", <<>>))
        chosen == SelectSeq(df.columns, wanted)
    IN IF chosen = <<>> THEN df.columns ELSE chosen

\* Lines 182-187: the columns to display.
DisplayColumns(st, df) ==
    LET present(col) == col \in SeqRange(df.columns)
        chosen == SelectSeq(Get(st, "selected_columns", <<>>), present)
    IN IF chosen = <<>> THEN df.columns ELSE chosen

RECURSIVE SumValor(_, _)
\* df['valor'].sum(): missing values are skipped.
SumValor(df, rows) ==
    IF rows = <<>> THEN 0
    ELSE (IF df.rows[Head(rows)]["valor"].na THEN 0 ELSE df.rows[Head(rows)]["valor"].v)
         + SumValor(df, Tail(rows))

\* The characters illegal_char_re matches, of those texts hold.
IllegalChars == {"VT"}

\* _clean_value: a str loses its illegal characters, anything else passes.
\* Only objetoCompra holds texts that may carry such characters.
CleanValue(col, cell) ==
    LET legal(c) == c \notin IllegalChars
    IN IF col = "objetoCompra" /\ ~cell.na
       THEN Val(SelectSeq(cell.v, legal)) ELSE cell

\* to_excel(df_display): one sheet, the header, no index column.
to_excel(df, columns, rows) ==
    [none |-> FALSE,
     sheet_name |-> "Biddings",
     header |-> columns,
     body |-> [k \in DOMAIN rows |->
                [j \in DOMAIN columns |->
                    CleanValue(columns[j], df.rows[rows[k]][columns[j]])]]]

\* A faulty OffersExport: the download button is always built.
OffersExport_Always(rows) == TRUE

\* `not df.empty` (line 202): whether the download button is built.
OffersExport(rows) == rows # <<>>

\* Lines 154-210: what pressing Buscar renders.
Search(df, st, keyword) ==
    LET df_cat == CategoricalFilters(df, st)
        df_num == NumericFilter(df, df_cat, st)
        rows == KeywordFilter(df, df_num, keyword)
        display_columns == DisplayColumns(st, df)
    IN [none |-> FALSE,
        keyword |-> keyword,
        df_cat |-> df_cat,
        df_num |-> df_num,
        df |-> rows,
        df_display |-> [columns |-> display_columns, rows |-> rows],
        num_rows |-> Len(rows),
        total_valor |-> SumValor(df, rows),
        excel_data |-> IF OffersExport(rows)
                       THEN to_excel(df, display_columns, rows) ELSE PyNone]

\* One run of main_interface, started by the event ev.
MainInterface(st, ev) ==
    LET df == load_data
        st1 == ColumnsSection(st, df, ev)
        st2 == FiltersSection(st1, ev)
    IN /\ df_full' = df
       /\ cache_loaded' = TRUE
       /\ session_state' = st2
       /\ view' = IF ev.kind = "buscar" THEN Search(df, st2, ev.value) ELSE PyNone
       /\ UNCHANGED contracts_clean

InitApp ==
    /\ session_state = InitialSessionState
    /\ cache_loaded = FALSE
    /\ df_full = [columns |-> <<>>, rows |-> <<>>]
    /\ form = PyNone
    /\ view = PyNone

\* login_page: the form is submitted.  A match sets logged_in and st.rerun()
\* runs main_interface at once; anything else shows the inline error.
LoginSubmit ==
    /\ ~session_state.logged_in
    /\ \E username \in Usernames, password \in Passwords :
        IF CredentialsOk(username, password)
        THEN /\ form' = [none |-> FALSE, username |-> username,
                         password |-> password, error |-> FALSE]
             /\ MainInterface(Set(session_state, "logged_in", TRUE),
                              Event("other", "", {}))
        ELSE /\ form' = [none |-> FALSE, username |-> username,
                         password |-> password, error |-> TRUE]
             /\ UNCHANGED <<session_state, contracts_clean, cache_loaded, df_full, view>>
    /\ UNCHANGED <<fetchVars, normVars>>

\* The button "Colunas".
ClickColunas ==
    /\ session_state.logged_in
    /\ MainInterface(session_state, Event("colunas", "", {}))
    /\ UNCHANGED <<form, fetchVars, normVars>>

\* The button "Filtros".
ClickFiltros ==
    /\ session_state.logged_in
    /\ MainInterface(session_state, Event("filtros", "", {}))
    /\ UNCHANGED <<form, fetchVars, normVars>>

\* The selections the user tries, each in the order chosen: none, one column,
\* two columns both ways round, three columns against the dataset order.
Selections(df) ==
    { s \in { <<>>,
              <<"valor">>,
              <<"valor", "objetoCompra">>,
              <<"objetoCompra", "valor">>,
              <<"ufSigla", "modalidadeNome", "municipioNome">> } :
        SeqRange(s) \subseteq SeqRange(df.columns) }

\* The column multiselect is changed.
ChangeSelection ==
    /\ session_state.logged_in
    /\ session_state.show_columns
    /\ \E sel \in Selections(df_full) :
        MainInterface(session_state, Event("select", "selected_columns", sel))
    /\ UNCHANGED <<form, fetchVars, normVars>>

\* One of the four categorical multiselects is changed.
ChangeCategoricalFilter ==
    /\ session_state.logged_in
    /\ session_state.show_filters
    /\ \E key \in FilterKeys :
        LET col == CASE key = "status_filter" -> "situacaoCompraNome"
                     [] key = "uf_filter" -> "ufSigla"
                     [] key = "city_filter" -> "municipioNome"
                     [] key = "type_filter" -> "modalidadeNome"
        IN \E chosen \in SUBSET Options(df_full, col) :
            MainInterface(session_state, Event("filter", key, chosen))
    /\ UNCHANGED <<form, fetchVars, normVars>>

\* The number input is changed (min_value=0 is its floor).
ChangeMinValue ==
    /\ session_state.logged_in
    /\ session_state.show_filters
    /\ \E n \in 0..MaxValor :
        MainInterface(session_state, Event("filter", "min_value", n))
    /\ UNCHANGED <<form, fetchVars, normVars>>

\* The button "Buscar", with a keyword text of the given set in the search bar.
Buscar(texts) ==
    /\ session_state.logged_in
    /\ \E keyword \in texts :
        MainInterface(session_state, Event("buscar", "", keyword))
    /\ UNCHANGED <<form, fetchVars, normVars>>

BuscarSession == Buscar(SessionKeywords)
BuscarKeyword == Buscar(KeywordTexts)

\* Any other rerun: the download button, a keyword typed without searching.
OtherRerun ==
    /\ session_state.logged_in
    /\ MainInterface(session_state, Event("other", "", {}))
    /\ UNCHANGED <<form, fetchVars, normVars>>

IdleApp ==
    /\ session_state = InitialSessionState
    /\ contracts_clean = [columns |-> <<>>, rows |-> <<>>]
    /\ cache_loaded = FALSE
    /\ df_full = [columns |-> <<>>, rows |-> <<>>]
    /\ form = PyNone
    /\ view = PyNone

(***************************************************************************)
(*                           Specifications                                *)
(***************************************************************************)
FetchInit == InitFetch /\ IdleNorm /\ IdleApp
FetchNext == LoopIteration
SpecFetch == FetchInit /\ [][FetchNext]_vars

NormInit == IdleFetch /\ InitNorm /\ IdleApp
NormNext == ProcessData
SpecNorm == NormInit /\ [][NormNext]_vars

AppInit == IdleFetch /\ IdleNorm /\ InitApp /\ contracts_clean = SessionSnapshot
AppNext ==
    \/ LoginSubmit
    \/ ClickColunas
    \/ ClickFiltros
    \/ ChangeSelection
    \/ ChangeCategoricalFilter
    \/ ChangeMinValue
    \/ BuscarSession
    \/ OtherRerun
SpecApp == AppInit /\ [][AppNext]_vars

KeywordInit == IdleFetch /\ IdleNorm /\ InitApp /\ contracts_clean = KeywordSnapshot
KeywordNext ==
    \/ LoginSubmit
    \/ BuscarKeyword
SpecKeyword == KeywordInit /\ [][KeywordNext]_vars

(***************************************************************************)
(*                        Claims on the Fetcher                            *)
(***************************************************************************)
\* A successful response that reports no remaining page.
LastPageResponse(resp) == resp.kind = "ok" /\ resp.paginasRestantes = 0

\* C1: the page requests carry pagina = 1, 2, 3, ... in order, none skipped or
\* repeated; no request follows a successful response whose paginasRestantes
\* is 0, the loop is left right after such a response, and a run that returns
\* a dataset ended on one.
C1_PagesInOrderUntilNoneRemain ==
    /\ \A i \in DOMAIN requests : requests[i].pagina = i
    /\ Len(requests) = Len(responses)
    /\ \A i \in DOMAIN responses :
          LastPageResponse(responses[i]) => (i = Len(responses) /\ fpc = "returned")
    /\ (fpc = "returned" /\ fetched # PyNone) =>
          /\ responses # <<>>
          /\ LastPageResponse(responses[Len(responses)])

\* A run of three pages that returned a dataset.
C1_Witness ==
    /\ fpc = "returned"
    /\ fetched # PyNone
    /\ Len(requests) = 3
    /\ "pagina" \in DOMAIN params

\* C2: a run in which some page request failed returns None, however many
\* pages were accumulated before; query_all_contracts always returns (every
\* exception is caught inside the loop).
C2_FailedPageGivesNone ==
    /\ fpc \in {"loop", "returned"}
    /\ (fpc = "returned" /\ \E i \in DOMAIN responses : responses[i].kind # "ok")
          => fetched = PyNone
    /\ fpc = "loop" => fetched = PyNone

\* Two pages were accumulated, then the third request failed.
C2_Witness ==
    /\ fpc = "returned"
    /\ Len(all_data) = 2
    /\ Flatten(all_data) # <<>>
    /\ responses[Len(responses)].kind = "http_error"
    /\ fetched = PyNone

(***************************************************************************)
(*                       Claims on the Normalizer                          *)
(***************************************************************************)
\* The (value, description) pair of a clean row.
ValuePair(row) == <<row.cells["valor"], row.cells["objetoCompra"]>>
\* The same pair of a raw row: valor is the copy of valorTotalEstimado.
RawValuePair(row) == <<row.cells["valorTotalEstimado"], row.cells["objetoCompra"]>>

\* C3: after process_data no two clean rows share a (valor, objetoCompra)
\* pair, and of the raw rows sharing a pair the first one is the one kept.
C3_UniqueValueDescription ==
    npc = "returned" =>
        /\ \A i, j \in DOMAIN clean_df.rows :
              i # j => ValuePair(clean_df.rows[i]) # ValuePair(clean_df.rows[j])
        /\ \A k \in DOMAIN raw_df.rows :
              (\A j \in 1..(k-1) : RawValuePair(raw_df.rows[j]) # RawValuePair(raw_df.rows[k]))
              => \E i \in DOMAIN clean_df.rows :
                    clean_df.rows[i].cells["numeroControlePNCP"]
                        = raw_df.rows[k].cells["numeroControlePNCP"]

\* The label the fixed table gives a power code.
PoderLabel(code) ==
    CASE code = "E" -> Val("Estadual")
      [] code = "M" -> Val("Municipal")
      [] code = "N" -> Val("Nacional")
      [] OTHER -> NA

\* The raw record a clean row claims to be, by its control number.
RawRecordOf(row) ==
    CHOOSE r \in { raw_df.rows[k] : k \in DOMAIN raw_df.rows } :
        r.cells["numeroControlePNCP"] = row.cells["numeroControlePNCP"]

\* C10: process_data returns one row per record left by the deduplication,
\* none made of missing values only, and in each row the flattened
\* orgaoEntidade and unidadeOrgao fields, poderId and poder are those of the
\* record whose objetoCompra and valor the row carries.
C10_RowsStayWithTheirRecord ==
    npc = "returned" =>
        /\ Len(clean_df.rows) =
              Cardinality({ <<raw_df.rows[k].cells["valorTotalHomologado"],
                              raw_df.rows[k].cells["objetoCompra"]>> :
                            k \in DOMAIN raw_df.rows })
        /\ \A i \in DOMAIN clean_df.rows :
              LET row == clean_df.rows[i]
              IN /\ ~row.cells["numeroControlePNCP"].na
                 /\ LET rec == RawRecordOf(row)
                    IN /\ row.cells["objetoCompra"] = rec.cells["objetoCompra"]
                       /\ row.cells["valor"] = rec.cells["valorTotalEstimado"]
                       /\ row.cells["cnpj"] = Val(rec.cells["orgaoEntidade"].v.cnpj)
                       /\ row.cells["poderId"] = Val(rec.cells["orgaoEntidade"].v.poderId)
                       /\ row.cells["poder"] = PoderLabel(rec.cells["orgaoEntidade"].v.poderId)
                       /\ row.cells["codigoUnidade"]
                             = Val(rec.cells["unidadeOrgao"].v.codigoUnidade)

(***************************************************************************)
(*                     Claims on the browsing session                      *)
(***************************************************************************)
Searched == view # PyNone
AllRows == [k \in DOMAIN df_full.rows |-> k]
Cell(l, col) == df_full.rows[l][col]

\* The tokens of a keyword text, stated on the text itself: the pieces
\* between semicolons, cut back to their first and last non-blank character,
\* the blank pieces left out.
KeywordTokens(text) ==
    LET n == Len(text)
        pieces == { p \in (1..(n+1)) \X (0..n) :
                      /\ p[1] <= p[2] + 1
                      /\ (p[1] = 1 \/ text[p[1] - 1] = ";")
                      /\ (p[2] = n \/ text[p[2] + 1] = ";")
                      /\ \A k \in p[1]..p[2] : text[k] # ";" }
        inked(p) == { k \in p[1]..p[2] : text[k] \notin {" ", "VT"} }
        first(p) == CHOOSE k \in inked(p) : \A j \in inked(p) : k <= j
        last(p) == CHOOSE k \in inked(p) : \A j \in inked(p) : k >= j
    IN { SubSeq(text, first(p), last(p)) : p \in { q \in pieces : inked(q) # {} } }

CaseFold(c) == CASE c = "A" -> "a" [] c = "B" -> "b" [] OTHER -> c

\* token occurs in text as a literal substring, letter case aside.
OccursIn(token, text) ==
    \E at \in 0..(Len(text) - Len(token)) :
        \A k \in 1..Len(token) : CaseFold(text[at + k]) = CaseFold(token[k])

\* C4: with no token left every row passes the keyword filter; otherwise a
\* row passes iff its objetoCompra is present and holds at least one token as
\* a literal, case-insensitive substring.
C4_KeywordFilter ==
    Searched =>
        LET tokens == KeywordTokens(view.keyword)
            passes(l) ==
                \/ tokens = {}
                \/ /\ ~Cell(l, "objetoCompra").na
                   /\ \E t \in tokens : OccursIn(t, Cell(l, "objetoCompra").v)
        IN view.df = SelectSeq(view.df_num, passes)

\* A search for "A;.": the row "a" passes by its letter, the row "b" and the
\* row without description do not.
C4_Witness ==
    /\ Searched
    /\ view.keyword = <<"A", ";", ".">>
    /\ \E l \in SeqRange(view.df) : Cell(l, "objetoCompra") = Val(<<"a">>)
    /\ \E l \in SeqRange(view.df) : Cell(l, "objetoCompra") = Val(<<"b", ".">>)
    /\ \E l \in SeqRange(view.df_num) \ SeqRange(view.df) :
          Cell(l, "objetoCompra") = Val(<<"b">>)
    /\ \E l \in SeqRange(view.df_num) \ SeqRange(view.df) : Cell(l, "objetoCompra").na

\* The minimum value a search reads from the session (0 when never set).
MinValueOfSession ==
    IF "min_value" \in DOMAIN session_state THEN session_state["min_value"] ELSE 0

\* C5: with a non-zero minimum a row is kept iff its valor >= the minimum;
\* with a zero or unset minimum the numeric filter removes no row.
C5_NumericFilter ==
    Searched =>
        LET kept(l) ==
                \/ MinValueOfSession = 0
                \/ /\ ~Cell(l, "valor").na
                   /\ ~(Cell(l, "valor").v < MinValueOfSession)
        IN view.df_num = SelectSeq(view.df_cat, kept)

\* A search with minimum MaxValor: a row at the threshold is kept, a row one
\* below and a row without valor are not.
C5_Witness ==
    /\ Searched
    /\ MinValueOfSession = MaxValor
    /\ \E l \in SeqRange(view.df_num) : Cell(l, "valor") = Val(MaxValor)
    /\ \E l \in SeqRange(view.df_cat) \ SeqRange(view.df_num) :
          Cell(l, "valor") = Val(MaxValor - 1)
    /\ \E l \in SeqRange(view.df_cat) \ SeqRange(view.df_num) : Cell(l, "valor").na

\* The four categorical criteria: the session key and the column it tests.
Criteria ==
    { <<"status_filter", "situacaoCompraNome">>, <<"uf_filter", "ufSigla">>,
      <<"city_filter", "municipioNome">>, <<"type_filter", "modalidadeNome">> }

\* The allowed set of a criterion (empty when never set).
Allowed(key) == IF key \in DOMAIN session_state THEN session_state[key] ELSE {}

\* C6: a row is kept iff, for every criterion whose allowed set is non-empty,
\* its value in that column is in the set; a search with no active criterion
\* (no allowed set, no minimum, no keyword token) returns every row.
C6_CategoricalFilters ==
    Searched =>
        LET kept(l) ==
                \A crit \in Criteria :
                    \/ Allowed(crit[1]) = {}
                    \/ \E v \in Allowed(crit[1]) : Cell(l, crit[2]) = Val(v)
        IN /\ view.df_cat = SelectSeq(AllRows, kept)
           /\ ( /\ \A crit \in Criteria : Allowed(crit[1]) = {}
                /\ MinValueOfSession = 0
                /\ KeywordTokens(view.keyword) = {} )
              => view.df = AllRows

\* A search under two active criteria that keeps some rows and drops others.
C6_Witness ==
    /\ Searched
    /\ Allowed("status_filter") = {"Revogada"}
    /\ Allowed("city_filter") = {"Lages"}
    /\ Allowed("uf_filter") = {}
    /\ view.df_cat # <<>>
    /\ \E l \in SeqRange(AllRows) \ SeqRange(view.df_cat) :
          Cell(l, "situacaoCompraNome") = Val("Revogada") /\ Cell(l, "municipioNome").na

\* C7: an empty selection, or one naming no column of the dataset, shows all
\* columns in dataset order; a selection that is a subset of the dataset's
\* columns shows exactly those, in the requested order; the rows shown are
\* the filtered rows.
C7_ColumnProjection ==
    Searched =>
        LET selection == session_state.selected_columns
            columns == SeqRange(df_full.columns)
        IN /\ (SeqRange(selection) \cap columns = {})
                => view.df_display.columns = df_full.columns
           /\ (selection # <<>> /\ SeqRange(selection) \subseteq columns)
                => view.df_display.columns = selection
           /\ view.df_display.rows = view.df

\* A search showing two chosen columns against the dataset's order.
C7_Witness ==
    /\ Searched
    /\ session_state.selected_columns = <<"valor", "objetoCompra">>
    /\ view.df_display.columns = <<"valor", "objetoCompra">>
    /\ view.df # <<>>

\* A search under an empty selection, which falls back to every column.
C7_WitnessFallback ==
    /\ Searched
    /\ session_state.selected_columns = <<>>
    /\ view.df_display.columns = df_full.columns

\* C8 as stated: after any search, one that matched no row included, the
\* export is produced, and for no row it holds the header row only.
C8_ExportAfterAnySearch ==
    Searched =>
        /\ view.excel_data # PyNone
        /\ view.excel_data.header = view.df_display.columns
        /\ (view.df = <<>> => view.excel_data.body = <<>>)

\* C8 as the code has it: the export is produced after a search iff the
\* search matched at least one row; when produced it holds the header row of
\* the displayed columns and one row per filtered record.  A search that
\* matched no row renders its (empty) table and offers no export.
C8_ExportIffRowsMatched ==
    Searched =>
        /\ (view.excel_data # PyNone) <=> (view.df # <<>>)
        /\ view.df_display.rows = view.df
        /\ view.num_rows = Len(view.df)
        /\ (view.excel_data # PyNone) =>
              /\ view.excel_data.header = view.df_display.columns
              /\ Len(view.excel_data.body) = Len(view.df)

\* A search that matched no row: rendered, without an export.
C8_Witness ==
    /\ Searched
    /\ view.df = <<>>
    /\ view.num_rows = 0
    /\ view.excel_data = PyNone

\* The submitted form carries the configured pair.
ConfiguredPair(f) ==
    f # PyNone /\ f.username = "Renato" /\ f.password = "12345678"

\* While logged out nothing behind the gate has happened.
C9_Gate ==
    ~session_state.logged_in =>
        /\ ~cache_loaded
        /\ df_full.rows = <<>>
        /\ view = PyNone
        /\ session_state = InitialSessionState
        /\ ENABLED (LoginSubmit /\ session_state'.logged_in)

\* What a step may do to the gate.
C9_Step ==
    /\ session_state.logged_in => session_state'.logged_in
    /\ ~session_state.logged_in =>
          /\ session_state'.logged_in <=> ConfiguredPair(form')
          /\ ~ConfiguredPair(form') =>
                /\ form' # PyNone /\ form'.error
                /\ UNCHANGED <<session_state, cache_loaded, df_full, view>>

\* C9: the session starts logged out; while logged out no load, filter,
\* search or export happens; logged_in becomes true only by submitting the
\* configured pair; any other submission leaves the session as it was (with
\* the inline error, and the correct pair still accepted afterwards); once
\* true, logged_in stays true.
C9_AccessGate ==
    /\ ~session_state.logged_in
    /\ [](C9_Gate)
    /\ [][C9_Step]_vars

\* A refused submission: the error is shown, the session is untouched and the
\* configured pair would still be accepted.
C9_Witness ==
    /\ form # PyNone
    /\ form.error
    /\ ~session_state.logged_in
    /\ ENABLED (LoginSubmit /\ session_state'.logged_in)
====
